---- MODULE Spec2Model ----
(***************************************************************************)
(* Execution pipeline of endpoint-builder: RequestBuilder (per-request     *)
(* configuration), HttpClient._execute (deduplication map, attempt loop,   *)
(* auth error hook, retry decision), OpaqueTokenStrategy and               *)
(* ExponentialRetryStrategy.                                               *)
(***************************************************************************)
EXTENDS Integers, Sequences, FiniteSets, TLC

\* ------------------------------------------------------------------ bounds
NumCallers == 2        \* concurrent send()/data() calls on one client
MaxAttempts == 2       \* largest maxAttempts given to a retry strategy
MaxCalls == 3          \* cap on the iterations of one attempt loop

Callers == 1..NumCallers

\* ------------------------------------------------------- values and types
Unset == "unset"                 \* undefined: the builder method was never called
Null == "null"                   \* null: explicitly disabled
NoResponse == 0                  \* `response` stays undefined (fetch rejected)
Statuses == {200, 401, 500}      \* statuses the backend answers with

\* Statuses of the responses handed to shouldRetry in direct calls.
ProbeStatuses == {200, 204, 400, 401, 403, 404, 429, 500, 501, 502, 503, 504, 599}
Body == "body"                   \* the body the backend sends with every response

\* A query object {page: v}, v written as in the source text; Unset when
\* query() was never called.
Queries == {Unset, "1"}
AllQueries == Queries \cup {"NaN", "null"}

\* Request headers set with header(): none, or one X-Tenant header.
Headers == {"", "X-Tenant: a"}

\* An auth slot: unset / null / a strategy instance.
AuthUnset == [tag |-> Unset]
AuthNull == [tag |-> Null]
ApiKeyStrategy == [tag |-> "ApiKeyStrategy"]
ApiKeyQueryStrategy == [tag |-> "ApiKeyStrategy(asQueryParam)"]
OpaqueTokenStrategy == [tag |-> "OpaqueTokenStrategy"]

\* A retry slot: unset / null / an ExponentialRetryStrategy instance.
RetryUnset == [tag |-> Unset, maxAttempts |-> 0]
RetryNull == [tag |-> Null, maxAttempts |-> 0]
ExponentialRetryStrategy(n) == [tag |-> "ExponentialRetryStrategy", maxAttempts |-> n]
RetryStrategies == {ExponentialRetryStrategy(n) : n \in 1..MaxAttempts}

NoCredential == <<"none", 0>>    \* no credential header

\* Promise objects: every call of the async function _execute creates and
\* returns a promise of its own, also when its body returns the promise found
\* in the in-flight map (the new promise is then resolved with that one).
NoPromise == <<"none", 0>>
AsyncPromise(c) == <<"_execute", c>>

\* No strategy method has been called directly.
NoProbe == [strategy |-> [tag |-> Unset, maxAttempts |-> 0],
            ctx |-> [attempt |-> 0, response |-> 0], out |-> Unset]

DEFAULT_RETRY_STATUS_CODES == {429, 500, 502, 503, 504}

VARIABLES
    defaults,            \* HttpClient.defaults: auth, retryStrategy, dedupe
    requestInterceptors, \* HttpClient.requestInterceptors
    tokens,              \* storage entry "tokens" of OpaqueTokenStrategy
    inflight,            \* HttpClient.inflight: key -> owner of the promise (0: no entry)
    rb,                  \* the RequestBuilder of each caller
    pc,                  \* position of each caller's _execute
    attempt,             \* `attempt` of each attempt loop
    config,              \* config, signal and timeoutId of the current attempt
    response,            \* `response` of the current attempt
    netCalls,            \* calls of fetch(config.url) made by each execution
    replays,             \* `continue`s taken after handleRequestError returned true
    joined,              \* the in-flight promise a deduplicated caller awaits (its owner)
    result,              \* how each caller's promise settled
    aborted,             \* aborted flag of each caller's AbortController
    sharedAborted,       \* aborted flag of the signal an interceptor attaches
    caught,              \* `err` of the catch block when fetch rejected
    returned,            \* the promise object _execute returned to each caller
    probe,               \* a direct call of a strategy method: arguments and result
    requestCache,        \* EndpointBuilder.requestCache (static): key -> owner of the promise
    eb,                  \* the EndpointBuilder of each caller and its execute() call
    tokenStrategy        \* a token-refreshing auth strategy instance and the calls on it

vars == <<defaults, requestInterceptors, tokens, inflight, rb, pc, attempt,
          config, response, netCalls, replays,
          joined, result, aborted, sharedAborted, caught, returned, probe,
          requestCache, eb, tokenStrategy>>

builderVars == <<requestCache, eb>>

\* ------------------------------------------------------------ pure helpers
\* a ?? b: the right operand is taken when the left one is null or undefined.
Coalesce(a, b) == IF a.tag \in {Unset, Null} THEN b ELSE a

\* JavaScript truthiness of a strategy slot.
Truthy(a) == a.tag \notin {Unset, Null}

\* response.ok
Ok(status) == status >= 200 /\ status <= 299

\* shouldRetry with the attempt bound off by one.
shouldRetry_offByOne(strategy, ctx) ==
    IF ctx.attempt > strategy.maxAttempts THEN FALSE
    ELSE IF ctx.response = NoResponse THEN TRUE
    ELSE ctx.response \in DEFAULT_RETRY_STATUS_CODES

\* ExponentialRetryStrategy.shouldRetry, with the default retryStatusCodes and
\* retryOnNetworkError.
shouldRetry(strategy, ctx) ==
    IF ctx.attempt >= strategy.maxAttempts THEN FALSE
    ELSE IF ctx.response = NoResponse THEN TRUE
    ELSE ctx.response \in DEFAULT_RETRY_STATUS_CODES

\* JSON.stringify of a query object {page: v}: NaN is written as null.
JSONstringify(q) ==
    IF q \in {"NaN", "null"} THEN "{\"page\":null}"
    ELSE IF q = "1" THEN "{\"page\":1}"
    ELSE "{\"page\":" \o q \o "}"

\* toQuery of a query object {page: v}: null and undefined values are skipped,
\* a number is written with String().
toQuery(q) ==
    IF q \in {Unset, "null"} THEN ""
    ELSE "page=" \o q

\* Request bodies: none, a string, a FormData or a Blob (told apart by the
\* text of their content).
NoBody == [type |-> "undefined", text |-> ""]
StringBody(text) == [type |-> "string", text |-> text]
FormDataBody(text) == [type |-> "FormData", text |-> text]
BlobBody(text) == [type |-> "Blob", text |-> text]

\* The body part of the dedupe key: JSON.stringify for an object, which
\* writes "{}" for a FormData or a Blob (they have no own enumerable
\* properties); String(body ?? "") otherwise.
dedupeBody(body) ==
    IF body.type \in {"FormData", "Blob"} THEN "{}" ELSE body.text

\* HttpClient._dedupeKey: the parts joined by "|".
_dedupeKey(b) ==
    b._method \o "|" \o b.input \o "|" \o
    (IF b._query # Unset THEN JSONstringify(b._query) ELSE "") \o "|" \o
    dedupeBody(b._body)

Keys == {_dedupeKey([_method |-> "GET", input |-> "/users", _query |-> q, _body |-> NoBody]) :
            q \in AllQueries}

\* enrichRequest that keeps sending the access token it first read.
enrichRequest_staleToken(auth, stored) ==
    IF auth.tag = "OpaqueTokenStrategy"
    THEN <<"Bearer", 1>>
    ELSE <<"X-API-Key", 0>>

\* enrichRequest of the strategy in `auth`: OpaqueTokenStrategy reads the stored
\* tokens, ApiKeyStrategy returns its key header, or no header when it was
\* constructed with asQueryParam.
enrichRequest(auth, stored) ==
    IF auth.tag = "OpaqueTokenStrategy"
    THEN IF stored.access # 0 THEN <<"Bearer", stored.access>> ELSE NoCredential
    ELSE IF auth = ApiKeyQueryStrategy THEN NoCredential
    ELSE <<"X-API-Key", 0>>

\* The url of the Request object handed to the strategy's enrich operation,
\* after the call: ApiKeyStrategy with asQueryParam sets the key parameter on
\* it; url is <<path, query string>>, the parameter a third component.
requestUrlAfterEnrich(auth, url) ==
    IF auth = ApiKeyQueryStrategy THEN <<url[1], url[2], <<"X-API-Key", 0>>>> ELSE url

\* HttpClient._buildConfig: the auth in effect enriches the request; the
\* returned config has no timeout and no signal field.
_buildConfig(b, dflt, stored) ==
    LET auth == Coalesce(b._auth, dflt.auth)
    IN [url |-> <<b.input, IF b._query # Unset THEN toQuery(b._query) ELSE "">>,
        headers |-> b._headers,
        credential |-> IF Truthy(auth) THEN enrichRequest(auth, stored) ELSE NoCredential,
        signal |-> Unset,
        timeout |-> FALSE]

\* RequestInterceptor.onRequest of the interceptors the model registers: one
\* attaches an application-wide abort signal, one sets a timeout.
onRequest(interceptor, cfg) ==
    IF interceptor = "signal" THEN [cfg EXCEPT !.signal = "shared"]
    ELSE IF interceptor = "timeout" THEN [cfg EXCEPT !.timeout = TRUE]
    ELSE cfg

RECURSIVE applyInterceptors(_, _)
applyInterceptors(interceptors, cfg) ==
    IF interceptors = <<>> THEN cfg
    ELSE applyInterceptors(Tail(interceptors), onRequest(Head(interceptors), cfg))

\* The builder a client hands out: new RequestBuilder(client, path).method("GET").
NewBuilder(dflt) ==
    [_method |-> "GET", input |-> "/users", _query |-> Unset, _body |-> NoBody,
     _headers |-> "",
     _dedupe |-> dflt.dedupe, _auth |-> AuthUnset, _retry |-> RetryUnset,
     _timeout |-> FALSE, _signal |-> FALSE]

NoConfig == [url |-> <<"", "">>, headers |-> "", credential |-> NoCredential,
             signal |-> Unset, timer |-> FALSE]
Pending == [kind |-> "pending", status |-> 0, data |-> Unset]

\* ------------------------------------------------- EndpointBuilder values
\* Client instances that hand out EndpointBuilders.
Clients == {1, 2}

\* HttpError.status of a fetch that rejected: undefined.
NoStatus == 0
EndpointStatuses == {200, 404, 418, 429, 500}

\* What calculateDelay returns: null or a number of milliseconds; NoDelay is
\* the local variable before the first calculateDelay call.
NoDelay == [kind |-> "unset", ms |-> 0]
NullDelay == [kind |-> "null", ms |-> 0]
Ms(n) == [kind |-> "ms", ms |-> n]

\* RetryStrategy implementations a retry config can carry: none (the loop
\* then uses a NoRetryStrategy), or a CustomRetryStrategy with the value its
\* delay function returns and the statuses its shouldRetry function accepts.
NoStrategy == [tag |-> "none", maxAttempts |-> 0, delay |-> NullDelay, retryOn |-> {}]
CustomRetryStrategy(maxAttempts, delay, retryOn) ==
    [tag |-> "custom", maxAttempts |-> maxAttempts, delay |-> delay, retryOn |-> retryOn]
EndpointStrategies ==
    {NoStrategy} \cup
    {CustomRetryStrategy(m, d, r) : m \in {1, MaxAttempts + 1},
                                    d \in {NullDelay, Ms(0), Ms(100)},
                                    r \in {{418}, {500, NoStatus}}}

\* RetryConfig: { attempts, delay, strategy? }
NoRetryConfig == [set |-> FALSE, attempts |-> 0, strategy |-> NoStrategy]
RetryConfigs == [set : {TRUE}, attempts : 0..MaxAttempts, strategy : EndpointStrategies]

\* ExecutionOptions of one execute() call.
DefaultOptions == [mock |-> Unset, mockOnly |-> FALSE, cache |-> FALSE, signal |-> FALSE]
ExecutionOptions == [mock : {Unset, "false"}, mockOnly : BOOLEAN, cache : BOOLEAN,
                     signal : {FALSE}]

\* execute({ signal }): the caller passes the signal of an AbortController.
SignalOptions == [DefaultOptions EXCEPT !.signal = TRUE]

\* The authStrategy field of a builder: undefined, null (disabled by
\* auth(null) / noAuth()), or a BearerAuthStrategy whose getToken returns
\* the given token ("" for an empty one).
NoAuthStrategy == [tag |-> "undefined", token |-> ""]
AuthDisabled == [tag |-> "null", token |-> ""]
BearerAuthStrategy(token) == [tag |-> "BearerAuthStrategy", token |-> token]
AuthStrategies == {AuthDisabled, BearerAuthStrategy(""), BearerAuthStrategy("t1")}

\* RequestCache.generateKey: method | url | JSON of the sorted headers | body.
\* The headers of a config are its plain headers and its Authorization
\* entry.
generateKey(cfg) == <<cfg.method, cfg.url, <<cfg.headers, cfg.Authorization>>, cfg.body>>
CacheKeys == {generateKey([method |-> "GET", url |-> "/users", headers |-> h,
                           Authorization |-> a, body |-> ""])
                 : h \in Headers, a \in {"", "Bearer t1"}}

\* new EndpointBuilder(url, "GET") created by a client, and the locals of
\* its execute() call.
NewEndpointBuilder(client) ==
    [client |-> client,
     config |-> [method |-> "GET", url |-> "/users", headers |-> "",
                 Authorization |-> "", body |-> ""],
     retryConfig |-> NoRetryConfig, authStrategy |-> NoAuthStrategy,
     mockResponse |-> FALSE, mockModeEnabled |-> FALSE, cacheEnabled |-> FALSE,
     options |-> DefaultOptions, aborted |-> FALSE,
     pc |-> "idle", attempt |-> 0, calls |-> 0, lastError |-> NoStatus,
     delay |-> NoDelay, joined |-> 0, result |-> Pending]

\* Token-refreshing auth strategies of the EndpointBuilder API.
TokenStrategyKinds == {"RefreshRotationStrategy", "OpaqueTokenAuthStrategy"}

\* Tokens: the i-th refreshToken() call of the provider resolves with token
\* i; getToken() returns StoredToken; setToken() is given ManualToken; 0 is
\* undefined.
StoredToken == 100
ManualToken == 101

\* A caller's call of applyAuth or handleAuthError on the strategy: the
\* refresh it awaits (0: none), the token it came back with (0: none), and
\* whether it was made after the last invalidateToken().
NoCall == [op |-> "none", awaiting |-> 0, token |-> 0, late |-> FALSE]

\* A new strategy instance: no current token, no refresh promise, no
\* refreshToken() call of the provider made (started), none outstanding
\* (pending); stale are the refreshToken() calls that had started when
\* invalidateToken() was last called.
NewTokenStrategy(kind) ==
    [kind |-> kind, currentToken |-> 0, refreshPromise |-> 0,
     started |-> 0, pending |-> {}, stale |-> {},
     call |-> [c \in Callers |-> NoCall]]

\* No EndpointBuilder request is made, no call on a token strategy.
IdleBuilders ==
    /\ requestCache = [k \in CacheKeys |-> 0]
    /\ eb = [c \in Callers |-> NewEndpointBuilder(1)]
    /\ tokenStrategy = NewTokenStrategy("RefreshRotationStrategy")

\* --------------------------------------------------------------- initial
Init ==
    /\ defaults \in [auth : {AuthNull, ApiKeyStrategy, OpaqueTokenStrategy},
                     retryStrategy : {RetryNull} \cup RetryStrategies,
                     dedupe : BOOLEAN]
    /\ requestInterceptors \in {<<>>, <<"signal">>, <<"timeout">>}
    /\ tokens \in [access : {1}, refresh : BOOLEAN]
    /\ inflight = [k \in Keys |-> 0]
    /\ rb = [c \in Callers |-> NewBuilder(defaults)]
    /\ pc = [c \in Callers |-> "idle"]
    /\ attempt = [c \in Callers |-> 0]
    /\ config = [c \in Callers |-> NoConfig]
    /\ response = [c \in Callers |-> NoResponse]
    /\ netCalls = [c \in Callers |-> 0]
    /\ replays = [c \in Callers |-> 0]
    /\ joined = [c \in Callers |-> 0]
    /\ result = [c \in Callers |-> Pending]
    /\ aborted = [c \in Callers |-> FALSE]
    /\ sharedAborted = FALSE
    /\ caught = [c \in Callers |-> "none"]
    /\ returned = [c \in Callers |-> NoPromise]
    /\ probe = NoProbe
    /\ IdleBuilders

\* ------------------------------------------------- RequestBuilder methods
\* auth(strategy): null disables, an instance overrides.
auth(c, strategy) ==
    /\ pc[c] = "idle"
    /\ rb' = [rb EXCEPT ![c]._auth = strategy]
    /\ UNCHANGED <<builderVars, tokenStrategy, probe, returned, defaults, requestInterceptors,
                   tokens, inflight, pc, attempt,
                   config, response, netCalls, replays, joined,
                   result, aborted, sharedAborted, caught>>

\* retry(strategy): null disables, an instance overrides.
retry(c, strategy) ==
    /\ pc[c] = "idle"
    /\ rb' = [rb EXCEPT ![c]._retry = strategy]
    /\ UNCHANGED <<builderVars, tokenStrategy, probe, returned, defaults, requestInterceptors,
                   tokens, inflight, pc, attempt,
                   config, response, netCalls, replays, joined,
                   result, aborted, sharedAborted, caught>>

dedupe(c, enable) ==
    /\ pc[c] = "idle"
    /\ rb' = [rb EXCEPT ![c]._dedupe = enable]
    /\ UNCHANGED <<builderVars, tokenStrategy, probe, returned, defaults, requestInterceptors,
                   tokens, inflight, pc, attempt,
                   config, response, netCalls, replays, joined,
                   result, aborted, sharedAborted, caught>>

query(c, params) ==
    /\ pc[c] = "idle"
    /\ rb' = [rb EXCEPT ![c]._query = params]
    /\ UNCHANGED <<builderVars, tokenStrategy, probe, returned, defaults, requestInterceptors,
                   tokens, inflight, pc, attempt,
                   config, response, netCalls, replays, joined,
                   result, aborted, sharedAborted, caught>>

\* header(name, value)
header(c, h) ==
    /\ pc[c] = "idle"
    /\ rb' = [rb EXCEPT ![c]._headers = h]
    /\ UNCHANGED <<builderVars, tokenStrategy, probe, returned, defaults, requestInterceptors,
                   tokens, inflight, pc, attempt,
                   config, response, netCalls, replays, joined,
                   result, aborted, sharedAborted, caught>>

\* timeout(ms): the model records only that a timeout was set.
timeout(c) ==
    /\ pc[c] = "idle"
    /\ rb' = [rb EXCEPT ![c]._timeout = TRUE]
    /\ UNCHANGED <<builderVars, tokenStrategy, probe, returned, defaults, requestInterceptors,
                   tokens, inflight, pc, attempt,
                   config, response, netCalls, replays, joined,
                   result, aborted, sharedAborted, caught>>

\* signal(controller.signal): the signal of the caller's own AbortController.
signal(c) ==
    /\ pc[c] = "idle"
    /\ rb' = [rb EXCEPT ![c]._signal = TRUE]
    /\ UNCHANGED <<builderVars, tokenStrategy, probe, returned, defaults, requestInterceptors,
                   tokens, inflight, pc, attempt,
                   config, response, netCalls, replays, joined,
                   result, aborted, sharedAborted, caught>>

\* ------------------------------------------------------ HttpClient._execute
\* send() with the registration of the promise left out.
send_unregistered(c) ==
    /\ pc[c] = "idle"
    /\ LET key == _dedupeKey(rb[c])
       IN IF rb[c]._dedupe /\ inflight[key] # 0
          THEN /\ pc' = [pc EXCEPT ![c] = "joined"]
               /\ joined' = [joined EXCEPT ![c] = inflight[key]]
               /\ UNCHANGED <<attempt, inflight>>
          ELSE /\ pc' = [pc EXCEPT ![c] = "build"]
               /\ attempt' = [attempt EXCEPT ![c] = 1]
               /\ UNCHANGED <<joined, inflight>>
    /\ returned' = [returned EXCEPT ![c] = AsyncPromise(c)]
    /\ UNCHANGED <<builderVars, tokenStrategy, probe, defaults, requestInterceptors,
                   tokens, rb, config, response,
                   netCalls, replays, result, aborted, sharedAborted, caught>>

\* send() / data() up to the first suspension: the in-flight lookup, the start
\* of executeRequest (attempt++ and the call of _buildConfig) and the
\* registration of the promise all run without suspension.
send(c) ==
    /\ pc[c] = "idle"
    /\ LET key == _dedupeKey(rb[c])
       IN IF rb[c]._dedupe /\ inflight[key] # 0
          THEN /\ pc' = [pc EXCEPT ![c] = "joined"]
               /\ joined' = [joined EXCEPT ![c] = inflight[key]]
               /\ UNCHANGED <<attempt, inflight>>
          ELSE /\ pc' = [pc EXCEPT ![c] = "build"]
               /\ attempt' = [attempt EXCEPT ![c] = 1]
               /\ inflight' = IF rb[c]._dedupe
                              THEN [inflight EXCEPT ![key] = c]
                              ELSE inflight
               /\ UNCHANGED joined
    /\ returned' = [returned EXCEPT ![c] = AsyncPromise(c)]
    /\ UNCHANGED <<builderVars, tokenStrategy, probe, defaults, requestInterceptors,
                   tokens, rb, config, response,
                   netCalls, replays, result, aborted,
                   sharedAborted, caught>>

\* One iteration up to the call of fetch: _buildConfig, the request
\* interceptors, the abort controller and the timeout timer.
startAttempt(c) ==
    /\ pc[c] = "build"
    /\ LET cfg == applyInterceptors(requestInterceptors,
                                    _buildConfig(rb[c], defaults, tokens))
           controller == cfg.signal = Unset
       IN config' = [config EXCEPT ![c] =
                        [url |-> cfg.url,
                         headers |-> cfg.headers,
                         credential |-> cfg.credential,
                         signal |-> IF cfg.signal # Unset THEN cfg.signal ELSE "internal",
                         timer |-> cfg.timeout /\ controller]]
    /\ pc' = [pc EXCEPT ![c] = "fetch"]
    /\ netCalls' = [netCalls EXCEPT ![c] = @ + 1]
    /\ caught' = [caught EXCEPT ![c] = "none"]
    /\ response' = [response EXCEPT ![c] = NoResponse]
    /\ UNCHANGED <<builderVars, tokenStrategy, probe, returned, defaults, requestInterceptors,
                   tokens, inflight, rb, attempt,
                   replays, joined, result, aborted,
                   sharedAborted>>

\* Settlement that deletes the in-flight entry on fulfilment only.
Settle_keepOnReject(c, outcome) ==
    /\ pc' = [pc EXCEPT ![c] = "done"]
    /\ result' = [result EXCEPT ![c] = outcome]
    /\ inflight' = IF rb[c]._dedupe /\ outcome.kind = "response"
                   THEN [inflight EXCEPT ![_dedupeKey(rb[c])] = 0]
                   ELSE inflight

\* executeRequest settles: the promise resolves or rejects and the finally
\* callback deletes the in-flight entry.
Settle(c, outcome) ==
    /\ pc' = [pc EXCEPT ![c] = "done"]
    /\ result' = [result EXCEPT ![c] = outcome]
    /\ inflight' = IF rb[c]._dedupe
                   THEN [inflight EXCEPT ![_dedupeKey(rb[c])] = 0]
                   ELSE inflight

\* const retryStrategy = rb._retry ?? this.defaults.retryStrategy
EffectiveRetry(c) == Coalesce(rb[c]._retry, defaults.retryStrategy)

\* The rest of an iteration once the auth error hook is out of the way: the
\* retry decision, the HttpError, the decoded response.
AfterHook(c, res) ==
    LET retryContext == [attempt |-> attempt[c], response |-> res]
    IN IF /\ res # NoResponse /\ ~Ok(res)
          /\ Truthy(EffectiveRetry(c))
          /\ shouldRetry(EffectiveRetry(c), retryContext)
       THEN /\ pc' = [pc EXCEPT ![c] = "delay"]
            /\ UNCHANGED <<result, inflight>>
       ELSE IF res = NoResponse \/ ~Ok(res)
       THEN Settle(c, [kind |-> "HttpError", status |-> res, data |-> Unset])
       ELSE Settle(c, [kind |-> "response", status |-> res, data |-> Body])

\* OpaqueTokenStrategy.handleRequestError up to its POST to the refresh
\* endpoint; it returns false at once for another status or without a stored
\* refresh token.  Only the client default's hook is ever called.
handleRequestError(c, res) ==
    IF res \in {401, 403} /\ tokens.refresh
    THEN /\ pc' = [pc EXCEPT ![c] = "refresh"]
         /\ UNCHANGED <<result, inflight>>
    ELSE AfterHook(c, res)

\* fetch resolved with a response of status `res`.
fetchResponds(c, res) ==
    /\ pc[c] = "fetch"
    /\ config' = [config EXCEPT ![c] = NoConfig]
    /\ response' = [response EXCEPT ![c] = res]
    /\ IF defaults.auth.tag = "OpaqueTokenStrategy"
       THEN handleRequestError(c, res)
       ELSE AfterHook(c, res)
    /\ UNCHANGED <<builderVars, tokenStrategy, probe, returned, defaults, requestInterceptors,
                   tokens, rb, attempt, netCalls,
                   replays, joined, aborted, sharedAborted, caught>>

\* The catch block: an error named AbortError is rethrown, any other rejection
\* is swallowed and leaves `response` undefined.
Rejected(c, err) ==
    /\ caught' = [caught EXCEPT ![c] = err]
    /\ IF err = "AbortError"
       THEN Settle(c, [kind |-> "AbortError", status |-> 0, data |-> Unset])
       ELSE AfterHook(c, NoResponse)

\* fetch rejected for a network-level failure (a TypeError).
fetchFails(c) ==
    /\ pc[c] = "fetch"
    /\ config' = [config EXCEPT ![c] = NoConfig]
    /\ Rejected(c, "TypeError")
    /\ UNCHANGED <<builderVars, tokenStrategy, probe, returned, defaults, requestInterceptors,
                   tokens, rb, attempt, response,
                   netCalls, replays, joined, aborted, sharedAborted>>

\* The signal handed to fetch is aborted by abort() without a reason: fetch
\* rejects with an AbortError.
fetchAborts(c) ==
    /\ pc[c] = "fetch"
    /\ \/ config[c].signal = "shared" /\ sharedAborted
       \/ config[c].signal = "caller" /\ aborted[c]
    /\ config' = [config EXCEPT ![c] = NoConfig]
    /\ Rejected(c, "AbortError")
    /\ UNCHANGED <<builderVars, tokenStrategy, probe, returned, defaults, requestInterceptors,
                   tokens, rb, attempt, response,
                   netCalls, replays, joined, aborted, sharedAborted>>

\* What fetch rejects with after controller.abort("timeout"): the abort reason,
\* the string "timeout", which has no name; a runtime without abort reasons
\* rejects with an AbortError.
TimeoutRejections == {"timeout", "AbortError"}

\* The timeout timer fires while fetch is pending: controller.abort("timeout").
timeoutFires(c) ==
    /\ pc[c] = "fetch"
    /\ config[c].timer
    /\ config' = [config EXCEPT ![c] = NoConfig]
    /\ \E err \in TimeoutRejections : Rejected(c, err)
    /\ UNCHANGED <<builderVars, tokenStrategy, probe, returned, defaults, requestInterceptors,
                   tokens, rb, attempt, response,
                   netCalls, replays, joined, aborted, sharedAborted>>

\* The POST of handleRequestError settles: with new tokens (saved, the hook
\* returns true and the loop continues), with a failure status (the hook
\* returns false), or with a rejection (the hook throws).
refreshResponds(c, outcome) ==
    /\ pc[c] = "refresh"
    /\ CASE outcome = "ok" ->
              /\ attempt[c] < MaxCalls
              /\ \E rotated \in BOOLEAN :
                    tokens' = [access |-> tokens.access + 1, refresh |-> rotated]
              /\ pc' = [pc EXCEPT ![c] = "build"]
              /\ attempt' = [attempt EXCEPT ![c] = @ + 1]
              /\ replays' = [replays EXCEPT ![c] = @ + 1]
              /\ UNCHANGED <<result, inflight>>
         [] outcome = "status" ->
              /\ AfterHook(c, response[c])
              /\ UNCHANGED <<tokens, attempt, replays>>
         [] OTHER ->
              /\ Settle(c, [kind |-> "TypeError", status |-> 0, data |-> Unset])
              /\ UNCHANGED <<tokens, attempt, replays>>
    /\ UNCHANGED <<builderVars, tokenStrategy, probe, returned, defaults, requestInterceptors,
                   rb, config, response,
                   netCalls, joined, aborted, sharedAborted, caught>>

\* The retry delay (setTimeout of nextDelay) elapses: next iteration.
delayElapses(c) ==
    /\ pc[c] = "delay"
    /\ pc' = [pc EXCEPT ![c] = "build"]
    /\ attempt' = [attempt EXCEPT ![c] = @ + 1]
    /\ UNCHANGED <<builderVars, tokenStrategy, probe, returned, defaults, requestInterceptors,
                   tokens, inflight, rb, config,
                   response, netCalls, replays, joined, result, aborted,
                   sharedAborted, caught>>

\* A deduplicated caller observes the settlement of the promise it was handed.
joinedSettles(c) ==
    /\ pc[c] = "joined"
    /\ pc[joined[c]] = "done"
    /\ pc' = [pc EXCEPT ![c] = "done"]
    /\ result' = [result EXCEPT ![c] = result[joined[c]]]
    /\ UNCHANGED <<builderVars, tokenStrategy, probe, returned, defaults, requestInterceptors,
                   tokens, inflight, rb, attempt,
                   config, response, netCalls, replays, joined, aborted,
                   sharedAborted, caught>>

\* ----------------------------------------------------------- environment
\* The caller aborts its own controller while its request is running.
abort(c) ==
    /\ rb[c]._signal
    /\ ~aborted[c]
    /\ pc[c] \notin {"idle", "done"}
    /\ aborted' = [aborted EXCEPT ![c] = TRUE]
    /\ UNCHANGED <<builderVars, tokenStrategy, probe, returned, defaults, requestInterceptors,
                   tokens, inflight, rb, pc,
                   attempt, config, response, netCalls, replays, joined, result,
                   sharedAborted, caught>>

\* The application aborts the signal its interceptor attaches.
abortShared ==
    /\ requestInterceptors = <<"signal">>
    /\ ~sharedAborted
    /\ sharedAborted' = TRUE
    /\ UNCHANGED <<builderVars, tokenStrategy, probe, returned, defaults, requestInterceptors,
                   tokens, inflight, rb, pc,
                   attempt, config, response, netCalls, replays, joined, result,
                   aborted, caught>>

\* One request on a client, with every per-request option.
Solo == {1}

Next ==
    \/ \E c \in Solo : \E s \in {AuthNull, ApiKeyStrategy} : auth(c, s)
    \/ \E c \in Solo : \E s \in {RetryNull} \cup RetryStrategies : retry(c, s)
    \/ \E c \in Solo : \E e \in BOOLEAN : dedupe(c, e)
    \/ \E c \in Solo : timeout(c)
    \/ \E c \in Solo : signal(c)
    \/ \E c \in Solo : send(c)
    \/ \E c \in Solo : startAttempt(c)
    \/ \E c \in Solo : \E res \in Statuses : fetchResponds(c, res)
    \/ \E c \in Solo : fetchFails(c)
    \/ \E c \in Solo : fetchAborts(c)
    \/ \E c \in Solo : timeoutFires(c)
    \/ \E c \in Solo : \E o \in {"ok", "status", "network"} : refreshResponds(c, o)
    \/ \E c \in Solo : delayElapses(c)
    \/ \E c \in Solo : abort(c)
    \/ abortShared

Spec == Init /\ [][Next]_vars

\* Statuses answered to concurrent requests: a success and a retried failure
\* (the failure that is not retried is the network failure).
DedupeStatuses == {200, 500}

\* Concurrent requests on a client without auth strategy whose request
\* interceptor attaches an application-wide abort signal: the deduplication
\* map under responses, failures, retries and aborts.
InitDedupe ==
    /\ Init
    /\ defaults.auth = AuthNull
    /\ defaults.retryStrategy \in {RetryNull, ExponentialRetryStrategy(MaxAttempts)}
    /\ requestInterceptors = <<"signal">>
    /\ tokens.refresh

NextDedupe ==
    \/ \E c \in Callers : \E e \in BOOLEAN : dedupe(c, e)
    \/ \E c \in Callers : \E q \in Queries : query(c, q)
    \/ \E c \in Callers : send(c)
    \/ \E c \in Callers : startAttempt(c)
    \/ \E c \in Callers : \E res \in DedupeStatuses : fetchResponds(c, res)
    \/ \E c \in Callers : fetchFails(c)
    \/ \E c \in Callers : fetchAborts(c)
    \/ \E c \in Callers : delayElapses(c)
    \/ \E c \in Callers : joinedSettles(c)
    \/ abortShared

SpecDedupe == InitDedupe /\ [][NextDedupe]_vars

\* Concurrent requests on a client whose default auth is an
\* OpaqueTokenStrategy with a stored refresh token: each 401 runs the hook.
InitRefresh ==
    /\ Init
    /\ defaults.auth = OpaqueTokenStrategy
    /\ defaults.retryStrategy = RetryNull
    /\ ~defaults.dedupe
    /\ requestInterceptors = <<>>
    /\ tokens.refresh

NextRefresh ==
    \/ \E c \in Callers : send(c)
    \/ \E c \in Callers : startAttempt(c)
    \/ \E c \in Callers : \E res \in Statuses : fetchResponds(c, res)
    \/ \E c \in Callers : \E o \in {"ok", "status", "network"} : refreshResponds(c, o)

SpecRefresh == InitRefresh /\ [][NextRefresh]_vars

\* Concurrent dedupe-enabled requests that differ in their query object or in
\* a request header, on a client without auth and without retries.
InitKey ==
    /\ Init
    /\ defaults.auth = AuthNull
    /\ defaults.retryStrategy = RetryNull
    /\ defaults.dedupe
    /\ requestInterceptors = <<>>
    /\ tokens.refresh

NextKey ==
    \/ \E c \in Callers : \E q \in AllQueries : query(c, q)
    \/ \E c \in Callers : \E h \in Headers : header(c, h)
    \/ \E c \in Callers : send(c)
    \/ \E c \in Callers : startAttempt(c)
    \/ \E c \in Callers : \E res \in Statuses : fetchResponds(c, res)
    \/ \E c \in Callers : fetchFails(c)
    \/ \E c \in Callers : joinedSettles(c)

SpecKey == InitKey /\ [][NextKey]_vars

\* A client on which no request is made.
InitIdle ==
    /\ defaults = [auth |-> AuthNull, retryStrategy |-> RetryNull, dedupe |-> FALSE]
    /\ requestInterceptors = <<>>
    /\ tokens = [access |-> 1, refresh |-> FALSE]
    /\ inflight = [k \in Keys |-> 0]
    /\ rb = [c \in Callers |-> NewBuilder(defaults)]
    /\ pc = [c \in Callers |-> "idle"]
    /\ attempt = [c \in Callers |-> 0]
    /\ config = [c \in Callers |-> NoConfig]
    /\ response = [c \in Callers |-> NoResponse]
    /\ netCalls = [c \in Callers |-> 0]
    /\ replays = [c \in Callers |-> 0]
    /\ joined = [c \in Callers |-> 0]
    /\ result = [c \in Callers |-> Pending]
    /\ aborted = [c \in Callers |-> FALSE]
    /\ sharedAborted = FALSE
    /\ caught = [c \in Callers |-> "none"]
    /\ returned = [c \in Callers |-> NoPromise]

engineVars == <<defaults, requestInterceptors, tokens, inflight, rb, pc, attempt,
                config, response, netCalls, replays, joined, result, aborted,
                sharedAborted, caught, returned>>

\* Direct calls of ExponentialRetryStrategy.shouldRetry on a RetryContext.
InitRetry ==
    /\ InitIdle
    /\ IdleBuilders
    /\ probe \in [strategy : RetryStrategies,
                  ctx : [attempt : 1..MaxCalls,
                         response : {NoResponse} \cup ProbeStatuses],
                  out : {Unset}]

\* strategy.shouldRetry(ctx)
shouldRetryCall ==
    /\ probe.out = Unset
    /\ probe' = [probe EXCEPT !.out =
                    IF shouldRetry(probe.strategy, probe.ctx) THEN "true" ELSE "false"]
    /\ UNCHANGED <<engineVars, builderVars, tokenStrategy>>

NextRetry == shouldRetryCall

SpecRetry == InitRetry /\ [][NextRetry]_vars

\* ---------------------------------------------- ExponentialRetryStrategy.nextDelay
RandomDen == 4                     \* Math.random() is one of 0/4, 1/4, 2/4, 3/4

\* Retry-After header values: absent, delay-seconds, an HTTP-date (as its
\* distance from Date.now() in ms), or text that is neither.
RetryAfterValues ==
    {[kind |-> "none", n |-> 0], [kind |-> "text", n |-> 0]}
       \cup {[kind |-> "seconds", n |-> n] : n \in {-1, 0, 1, 3}}
       \cup {[kind |-> "date", n |-> n] : n \in {-1000, 1500}}

\* Strategies with their delay options (ms, multiples of 2 * RandomDen so that
\* the halves and the jitter are whole numbers).
DelayStrategies ==
    [baseDelay : {8, 304}, maxDelay : {16, 2000, 10000}, respectRetryAfter : BOOLEAN]

Min(a, b) == IF a <= b THEN a ELSE b

\* parseRetryAfter: <<ms>>, or <<>> for null.
parseRetryAfter(value) ==
    CASE value.kind = "seconds" -> <<value.n * 1000>>
      [] value.kind = "date" -> IF value.n > 0 THEN <<value.n>> ELSE <<>>
      [] OTHER -> <<>>

\* nextDelay without the cap of the exponential term.
nextDelay_uncapped(strategy, ctx, random) ==
    IF /\ strategy.respectRetryAfter /\ ctx.response # NoResponse
       /\ ctx.retryAfter.kind # "none"
       /\ parseRetryAfter(ctx.retryAfter) # <<>>
    THEN Min(parseRetryAfter(ctx.retryAfter)[1], strategy.maxDelay)
    ELSE LET exp == strategy.baseDelay * 2 ^ (ctx.attempt - 1)
         IN (exp \div 2) + (random * (exp \div 2)) \div RandomDen

\* nextDelay without the cap of the Retry-After delay.
nextDelay_rawRetryAfter(strategy, ctx, random) ==
    IF /\ strategy.respectRetryAfter /\ ctx.response # NoResponse
       /\ ctx.retryAfter.kind # "none"
       /\ parseRetryAfter(ctx.retryAfter) # <<>>
    THEN parseRetryAfter(ctx.retryAfter)[1]
    ELSE LET exp == Min(strategy.baseDelay * 2 ^ (ctx.attempt - 1), strategy.maxDelay)
         IN (exp \div 2) + (random * (exp \div 2)) \div RandomDen

\* ExponentialRetryStrategy.nextDelay, Math.random() being random / RandomDen.
nextDelay(strategy, ctx, random) ==
    IF /\ strategy.respectRetryAfter /\ ctx.response # NoResponse
       /\ ctx.retryAfter.kind # "none"
       /\ parseRetryAfter(ctx.retryAfter) # <<>>
    THEN Min(parseRetryAfter(ctx.retryAfter)[1], strategy.maxDelay)
    ELSE LET exp == Min(strategy.baseDelay * 2 ^ (ctx.attempt - 1), strategy.maxDelay)
         IN (exp \div 2) + (random * (exp \div 2)) \div RandomDen

\* Direct calls of nextDelay with Math.random mocked to a fixed value: one for
\* ctx.attempt and one for the attempt after it.
InitDelay ==
    /\ InitIdle
    /\ IdleBuilders
    /\ probe \in [strategy : DelayStrategies,
                  ctx : [attempt : 1..MaxCalls,
                         response : {NoResponse, 503},
                         retryAfter : RetryAfterValues],
                  random : 0..(RandomDen - 1),
                  out : {<<>>}]
    /\ probe.ctx.response = NoResponse => probe.ctx.retryAfter.kind = "none"

nextDelayCall ==
    /\ Len(probe.out) < 2
    /\ probe' = [probe EXCEPT !.out =
                    Append(@, nextDelay(probe.strategy,
                                        [probe.ctx EXCEPT !.attempt = @ + Len(probe.out)],
                                        probe.random))]
    /\ UNCHANGED <<engineVars, builderVars, tokenStrategy>>

NextDelay == nextDelayCall

SpecDelay == InitDelay /\ [][NextDelay]_vars

\* ------------------------------------------------ _buildConfig header merge
\* Header objects map a header name to its value; Absent marks a name the
\* object has no key for, Undefined a key whose value is undefined.
HeaderNames == {"Authorization", "X-Tenant"}
Absent == "absent"
Undefined == "undefined"

\* An earlier source keeps its value.
mergeHeaders_targetWins(target, src) ==
    [k \in HeaderNames |-> IF target[k] # Absent THEN target[k]
                           ELSE IF src[k] \in {Absent, Undefined} THEN Absent
                           ELSE src[k]]

\* mergeHeaders(target, src): copy target, then assign every defined entry
\* of src over it.
mergeHeaders(target, src) ==
    [k \in HeaderNames |-> IF src[k] \in {Absent, Undefined} THEN target[k] ELSE src[k]]

\* The headers of the config _buildConfig returns.
buildHeaders(defaultHeaders, _headers, hasAuth, authHeaders) ==
    LET fromDefaults == defaultHeaders
        withRequest == IF \E k \in HeaderNames : _headers[k] # Absent
                       THEN mergeHeaders(fromDefaults, _headers)
                       ELSE fromDefaults
    IN IF hasAuth /\ \E k \in HeaderNames : authHeaders[k] # Absent
       THEN mergeHeaders(withRequest, authHeaders)
       ELSE withRequest

\* Direct calls of the header merge on the three sources.
InitHeaders ==
    /\ InitIdle
    /\ IdleBuilders
    /\ probe \in [defaultHeaders : [HeaderNames -> {Absent, "default"}],
                  _headers : [HeaderNames -> {Absent, "request"}],
                  auth : BOOLEAN,
                  authHeaders : [HeaderNames -> {Absent, Undefined, "auth"}],
                  out : {<<>>}]

buildHeadersCall ==
    /\ probe.out = <<>>
    /\ probe' = [probe EXCEPT !.out = <<buildHeaders(probe.defaultHeaders, probe._headers,
                                                     probe.auth, probe.authHeaders)>>]
    /\ UNCHANGED <<engineVars, builderVars, tokenStrategy>>

NextHeaders == buildHeadersCall

SpecHeaders == InitHeaders /\ [][NextHeaders]_vars

\* ----------------------------------------------------- AuthStrategy enrich
\* Strategy instances whose enrich operation is called directly.
EnrichStrategies ==
    [tag : {"ApiKeyStrategy"}, headerName : {"X-API-Key", "X-Token"}, key : {1, 2},
     asQueryParam : BOOLEAN]
    \cup [tag : {"OpaqueTokenStrategy"}, headerName : {"Authorization"}, key : {0},
          asQueryParam : {FALSE}]

\* Access tokens the strategy's storage can hold; 0: no tokens stored.
StoredAccess == 0..3

\* ApiKeyStrategy.enrich: the key as a header, or nothing when the key goes
\* into the query string.
enrich(strategy) ==
    IF strategy.asQueryParam THEN NoCredential ELSE <<strategy.headerName, strategy.key>>

\* The url of req after ApiKeyStrategy.enrich(req): the key parameter is set
\* (replaced, not appended) in query mode.
enrichedUrl(strategy, url) ==
    IF strategy.tag = "ApiKeyStrategy" /\ strategy.asQueryParam
    THEN <<url[1], <<strategy.headerName, strategy.key>>>>
    ELSE url

\* The headers one call of the strategy's enrich operation resolves to.
enrichHeaders(strategy, access) ==
    IF strategy.tag = "OpaqueTokenStrategy"
    THEN enrichRequest(OpaqueTokenStrategy, [access |-> access, refresh |-> FALSE])
    ELSE enrich(strategy)

InitEnrich ==
    /\ InitIdle
    /\ IdleBuilders
    /\ probe \in [strategy : EnrichStrategies, access : StoredAccess,
                  url : {<<"/users", <<>>>>}, out : {<<>>}]

\* An enrich operation that uses up the stored access token.
enrichCall_consuming ==
    /\ Len(probe.out) < MaxCalls
    /\ probe' = [probe EXCEPT
                    !.out = Append(@, enrichHeaders(probe.strategy, probe.access)),
                    !.url = enrichedUrl(probe.strategy, @),
                    !.access = 0]
    /\ UNCHANGED <<engineVars, builderVars, tokenStrategy>>

\* await strategy.enrichRequest(req) / strategy.enrich(req)
enrichCall ==
    /\ Len(probe.out) < MaxCalls
    /\ probe' = [probe EXCEPT
                    !.out = Append(@, enrichHeaders(probe.strategy, probe.access)),
                    !.url = enrichedUrl(probe.strategy, @)]
    /\ UNCHANGED <<engineVars, builderVars, tokenStrategy>>

\* The stored tokens change (a refresh saved new ones, or a logout cleared
\* them): a new run of calls begins.
tokensChange(access) ==
    /\ access # probe.access
    /\ probe' = [probe EXCEPT !.access = access, !.out = <<>>]
    /\ UNCHANGED <<engineVars, builderVars, tokenStrategy>>

NextEnrich ==
    \/ enrichCall
    \/ \E access \in StoredAccess : tokensChange(access)

SpecEnrich == InitEnrich /\ [][NextEnrich]_vars

\* -------------------------------------------------------- EndpointBuilder
\* Builder methods, called before execute().
EndpointBuilder_header(c, h) ==
    /\ eb[c].pc = "idle"
    /\ eb' = [eb EXCEPT ![c].config.headers = h]
    /\ UNCHANGED <<engineVars, tokenStrategy, probe, requestCache>>

EndpointBuilder_retry(c, retryConfig) ==
    /\ eb[c].pc = "idle"
    /\ eb' = [eb EXCEPT ![c].retryConfig = retryConfig]
    /\ UNCHANGED <<engineVars, tokenStrategy, probe, requestCache>>

EndpointBuilder_mock(c) ==
    /\ eb[c].pc = "idle"
    /\ eb' = [eb EXCEPT ![c].mockResponse = TRUE]
    /\ UNCHANGED <<engineVars, tokenStrategy, probe, requestCache>>

EndpointBuilder_mockMode(c, enabled) ==
    /\ eb[c].pc = "idle"
    /\ eb' = [eb EXCEPT ![c].mockModeEnabled = enabled]
    /\ UNCHANGED <<engineVars, tokenStrategy, probe, requestCache>>

EndpointBuilder_cache(c, enabled) ==
    /\ eb[c].pc = "idle"
    /\ eb' = [eb EXCEPT ![c].cacheEnabled = enabled]
    /\ UNCHANGED <<engineVars, tokenStrategy, probe, requestCache>>

\* Every failure counts as retryable.
isRetryableError_any(status) == TRUE

\* isRetryableError(error): no status, status >= 500 or status 429.
isRetryableError(status) == status = NoStatus \/ status >= 500 \/ status = 429

\* retryStrategy.calculateDelay(attempt, error) of NoRetryStrategy and of
\* CustomRetryStrategy.
calculateDelay(strategy, att, status) ==
    IF strategy.tag = "none" THEN NullDelay
    ELSE IF att >= strategy.maxAttempts THEN NullDelay
    ELSE strategy.delay

\* retryStrategy.shouldRetry(error) of NoRetryStrategy and of
\* CustomRetryStrategy.
strategyShouldRetry(strategy, status) ==
    strategy.tag # "none" /\ status \in strategy.retryOn

\* const maxAttempts = this.retryConfig?.attempts || 1
maxAttemptsOf(retryConfig) ==
    IF retryConfig.set /\ retryConfig.attempts # 0 THEN retryConfig.attempts ELSE 1

\* shouldCache of the execute() call a builder is in.
shouldCache(b) == b.cacheEnabled \/ b.options.cache

MockOnlyError == [kind |-> "Error", status |-> 0, data |-> "no mock response is configured"]
MockResult == [kind |-> "mock", status |-> 200, data |-> "mock"]

\* execute() that skips the mock-only check and the mock response.
execute_ignoringMocks(c, options) ==
    /\ eb[c].pc = "idle"
    /\ eb' = [eb EXCEPT ![c] = [eb[c] EXCEPT !.options = options, !.pc = "fetch", !.calls = 1]]
    /\ UNCHANGED <<engineVars, tokenStrategy, probe, requestCache>>

\* execute() whose cache lookup never registers the new request.
execute_unregistered(c, options) ==
    /\ eb[c].pc = "idle"
    /\ eb' = [eb EXCEPT ![c] = [eb[c] EXCEPT !.options = options, !.pc = "fetch", !.calls = 1]]
    /\ UNCHANGED <<engineVars, tokenStrategy, probe, requestCache>>

\* BearerAuthStrategy.applyAuth(requestConfig), seen from the builder:
\* requestConfig is a shallow copy of this.config, so its headers object is
\* the builder's; a non-empty token is written into it as Authorization.
applyAuth_onConfig(strategy, cfg) ==
    IF strategy.tag = "BearerAuthStrategy" /\ strategy.token # ""
    THEN [cfg EXCEPT !.Authorization = "Bearer " \o strategy.token]
    ELSE cfg

\* execute(options): the mock handling, then the authentication, then the
\* cache lookup (RequestCache.get), then executeRequest up to its first
\* fetch() call.
execute(c, options) ==
    LET b0 == [eb[c] EXCEPT !.options = options]
        isMockMode == b0.mockModeEnabled \/ options.mockOnly
        b == [b0 EXCEPT !.config = applyAuth_onConfig(b0.authStrategy, @)]
        key == generateKey(b.config)
    IN /\ eb[c].pc = "idle"
       /\ IF isMockMode /\ ~b0.mockResponse
          THEN /\ eb' = [eb EXCEPT ![c] = [b0 EXCEPT !.pc = "done", !.result = MockOnlyError]]
               /\ UNCHANGED requestCache
          ELSE IF (options.mock # "false" /\ b0.mockResponse) \/ isMockMode
          THEN /\ eb' = [eb EXCEPT ![c] = [b0 EXCEPT !.pc = "done", !.result = MockResult]]
               /\ UNCHANGED requestCache
          ELSE IF shouldCache(b) /\ requestCache[key] # 0
          THEN /\ eb' = [eb EXCEPT ![c] = [b EXCEPT !.pc = "joined",
                                                    !.joined = requestCache[key]]]
               /\ UNCHANGED requestCache
          ELSE /\ eb' = [eb EXCEPT ![c] = [b EXCEPT !.pc = "fetch", !.calls = 1]]
               /\ requestCache' = IF shouldCache(b)
                                  THEN [requestCache EXCEPT ![key] = c]
                                  ELSE requestCache
       /\ UNCHANGED <<engineVars, tokenStrategy, probe>>

\* The end of executeRequest: the promise settles, and the finally block of
\* RequestCache.get deletes the key of a request that went through the cache.
Finish(c, b, res) ==
    /\ eb' = [eb EXCEPT ![c] = [b EXCEPT !.pc = "done", !.result = res]]
    /\ requestCache' = IF shouldCache(b)
                       THEN [requestCache EXCEPT ![generateKey(b.config)] = 0]
                       ELSE requestCache

\* The catch block of the retry loop of executeRequest, run for the failure
\* `status` of the attempt: stop on the last attempt or a failure that is not
\* retryable, else wait for the strategy's delay (if positive) and call
\* fetch() again.
Catch(c, status) ==
    LET b == [eb[c] EXCEPT !.attempt = @ + 1, !.lastError = status]
        err == [kind |-> IF status # NoStatus THEN "HttpError"
                         ELSE IF b.aborted THEN "AbortError" ELSE "TypeError",
                status |-> status, data |-> Unset]
        delay == calculateDelay(b.retryConfig.strategy, b.attempt, status)
    IN IF b.attempt >= maxAttemptsOf(b.retryConfig) \/ ~isRetryableError(status)
       THEN Finish(c, b, err)
       ELSE /\ eb' = [eb EXCEPT ![c] =
                        IF delay.kind = "ms" /\ delay.ms > 0
                        THEN [b EXCEPT !.delay = delay, !.pc = "delay"]
                        ELSE [b EXCEPT !.delay = delay, !.pc = "fetch", !.calls = @ + 1]]
            /\ UNCHANGED requestCache

\* fetch() resolves with a response of the given status: makeRequest returns
\* it when ok and throws an HttpError otherwise.
EndpointBuilder_responds(c, status) ==
    /\ eb[c].pc = "fetch"
    /\ ~eb[c].aborted
    /\ IF status >= 200 /\ status < 300
       THEN Finish(c, eb[c], [kind |-> "response", status |-> status, data |-> Body])
       ELSE Catch(c, status)
    /\ UNCHANGED <<engineVars, tokenStrategy, probe>>

\* fetch() rejects: a network failure, or the AbortError of an aborted
\* signal; either way an error without status.
EndpointBuilder_fails(c) ==
    /\ eb[c].pc = "fetch"
    /\ Catch(c, NoStatus)
    /\ UNCHANGED <<engineVars, tokenStrategy, probe>>

\* The wait before a retry is over: the loop calls fetch() again.
EndpointBuilder_delayElapses(c) ==
    /\ eb[c].pc = "delay"
    /\ eb' = [eb EXCEPT ![c].pc = "fetch", ![c].calls = @ + 1]
    /\ UNCHANGED <<engineVars, tokenStrategy, probe, requestCache>>

\* A caller that got the cached promise sees it settle.
EndpointBuilder_joinedSettles(c) ==
    /\ eb[c].pc = "joined"
    /\ eb[eb[c].joined].pc = "done"
    /\ eb' = [eb EXCEPT ![c].pc = "done", ![c].result = eb[eb[c].joined].result]
    /\ UNCHANGED <<engineVars, tokenStrategy, probe, requestCache>>

\* One EndpointBuilder request with mocks, options and a retry config.
InitEndpoint ==
    /\ InitIdle
    /\ probe = NoProbe
    /\ IdleBuilders

NextEndpoint ==
    \/ \E c \in Solo : \E cfg \in RetryConfigs : EndpointBuilder_retry(c, cfg)
    \/ \E c \in Solo : EndpointBuilder_mock(c)
    \/ \E c \in Solo : \E e \in BOOLEAN : EndpointBuilder_mockMode(c, e)
    \/ \E c \in Solo : \E options \in ExecutionOptions : execute(c, options)
    \/ \E c \in Solo : \E status \in EndpointStatuses : EndpointBuilder_responds(c, status)
    \/ \E c \in Solo : EndpointBuilder_fails(c)
    \/ \E c \in Solo : EndpointBuilder_delayElapses(c)

SpecEndpoint == InitEndpoint /\ [][NextEndpoint]_vars

\* Concurrent EndpointBuilder requests made through several client
\* instances, with and without cache(true); no retry config.
CacheStatuses == {200, 500}

InitCache ==
    /\ InitIdle
    /\ probe = NoProbe
    /\ requestCache = [k \in CacheKeys |-> 0]
    /\ \E client \in [Callers -> Clients] :
           eb = [c \in Callers |-> NewEndpointBuilder(client[c])]
    /\ tokenStrategy = NewTokenStrategy("RefreshRotationStrategy")

NextCache ==
    \/ \E c \in Callers : \E h \in Headers : EndpointBuilder_header(c, h)
    \/ \E c \in Callers : \E e \in BOOLEAN : EndpointBuilder_cache(c, e)
    \/ \E c \in Callers : execute(c, DefaultOptions)
    \/ \E c \in Callers : \E status \in CacheStatuses : EndpointBuilder_responds(c, status)
    \/ \E c \in Callers : EndpointBuilder_fails(c)
    \/ \E c \in Callers : EndpointBuilder_joinedSettles(c)

SpecCache == InitCache /\ [][NextCache]_vars

\* ------------------------------------------------ ApiKeyStrategy in the engine
\* One request on a client whose default auth is none, an ApiKeyStrategy
\* sending a header, or one constructed with asQueryParam.
InitApiKey ==
    /\ defaults \in [auth : {AuthNull, ApiKeyStrategy, ApiKeyQueryStrategy},
                     retryStrategy : {RetryNull, ExponentialRetryStrategy(MaxAttempts)},
                     dedupe : {FALSE}]
    /\ requestInterceptors = <<>>
    /\ tokens = [access |-> 1, refresh |-> FALSE]
    /\ inflight = [k \in Keys |-> 0]
    /\ rb = [c \in Callers |-> NewBuilder(defaults)]
    /\ pc = [c \in Callers |-> "idle"]
    /\ attempt = [c \in Callers |-> 0]
    /\ config = [c \in Callers |-> NoConfig]
    /\ response = [c \in Callers |-> NoResponse]
    /\ netCalls = [c \in Callers |-> 0]
    /\ replays = [c \in Callers |-> 0]
    /\ joined = [c \in Callers |-> 0]
    /\ result = [c \in Callers |-> Pending]
    /\ aborted = [c \in Callers |-> FALSE]
    /\ sharedAborted = FALSE
    /\ caught = [c \in Callers |-> "none"]
    /\ returned = [c \in Callers |-> NoPromise]
    /\ probe = NoProbe
    /\ IdleBuilders

NextApiKey ==
    \/ \E c \in Solo : \E s \in {AuthNull, ApiKeyStrategy, ApiKeyQueryStrategy} : auth(c, s)
    \/ \E c \in Solo : \E q \in Queries : query(c, q)
    \/ \E c \in Solo : send(c)
    \/ \E c \in Solo : startAttempt(c)
    \/ \E c \in Solo : \E res \in Statuses : fetchResponds(c, res)
    \/ \E c \in Solo : fetchFails(c)
    \/ \E c \in Solo : delayElapses(c)

SpecApiKey == InitApiKey /\ [][NextApiKey]_vars

\* --------------------------------------------------------- decodeResponse
\* config.responseType: not set, or one of the ResponseType values.
ResponseTypes == {"json", "text", "blob", "arraybuffer", "stream"}

\* Content-Type headers of a response; "" when the header is missing.
ContentTypes == {"", "application/json", "application/json; charset=utf-8",
                 "text/plain", "application/octet-stream"}

\* contentType.includes("application/json") and contentType.startsWith("text/")
IncludesJson(ct) == ct \in {"application/json", "application/json; charset=utf-8"}
StartsWithText(ct) == ct \in {"text/plain"}

\* decodeResponse(response, config): the way the body is read.  "none" is the
\* undefined returned for an empty response; the others are the Response
\* methods json(), text(), blob(), arrayBuffer() and the body stream.
decodeResponse(res, cfg) ==
    IF res.status = 204 \/ res.contentLength0 THEN "none"
    ELSE IF cfg.responseType = "text" THEN "text"
    ELSE IF cfg.responseType = "blob" THEN "blob"
    ELSE IF cfg.responseType = "arraybuffer" THEN "arrayBuffer"
    ELSE IF cfg.responseType = "stream" THEN "body"
    ELSE IF IncludesJson(res.contentType) THEN "json"
    ELSE IF StartsWithText(res.contentType) THEN "text"
    ELSE "blob"

\* Direct calls of decodeResponse on a successful response.
InitDecode ==
    /\ InitIdle
    /\ IdleBuilders
    /\ probe \in [res : [status : {200, 204}, contentLength0 : BOOLEAN,
                         contentType : ContentTypes],
                  cfg : [responseType : {Unset} \cup ResponseTypes],
                  out : {Unset}]

decodeResponseCall ==
    /\ probe.out = Unset
    /\ probe' = [probe EXCEPT !.out = decodeResponse(probe.res, probe.cfg)]
    /\ UNCHANGED <<engineVars, builderVars, tokenStrategy>>

NextDecode == decodeResponseCall

SpecDecode == InitDecode /\ [][NextDecode]_vars

\* ------------------------------------------------------------ termination
\* The attempt loop without a cap on its iterations: the loop variable, the
\* call counters and the token number stop counting at MaxCalls, so that a
\* loop that goes on for ever is a cycle of states.
\*
\* One iteration up to the call of fetch.
startAttemptLoop(c) ==
    /\ pc[c] = "build"
    /\ LET cfg == applyInterceptors(requestInterceptors,
                                    _buildConfig(rb[c], defaults, tokens))
           controller == cfg.signal = Unset
       IN config' = [config EXCEPT ![c] =
                        [url |-> cfg.url,
                         headers |-> cfg.headers,
                         credential |-> cfg.credential,
                         signal |-> IF cfg.signal # Unset THEN cfg.signal ELSE "internal",
                         timer |-> cfg.timeout /\ controller]]
    /\ pc' = [pc EXCEPT ![c] = "fetch"]
    /\ netCalls' = [netCalls EXCEPT ![c] = Min(@ + 1, MaxCalls)]
    /\ caught' = [caught EXCEPT ![c] = "none"]
    /\ response' = [response EXCEPT ![c] = NoResponse]
    /\ UNCHANGED <<builderVars, tokenStrategy, probe, returned, defaults, requestInterceptors,
                   tokens, inflight, rb, attempt,
                   replays, joined, result, aborted,
                   sharedAborted>>

\* The POST of handleRequestError settles; on new tokens the hook returns
\* true and the loop continues, however often that has happened before.
refreshRespondsLoop(c, outcome) ==
    /\ pc[c] = "refresh"
    /\ CASE outcome = "ok" ->
              /\ \E rotated \in BOOLEAN :
                    tokens' = [access |-> Min(tokens.access + 1, MaxCalls),
                               refresh |-> rotated]
              /\ pc' = [pc EXCEPT ![c] = "build"]
              /\ attempt' = [attempt EXCEPT ![c] = Min(@ + 1, MaxCalls)]
              /\ replays' = [replays EXCEPT ![c] = Min(@ + 1, MaxCalls)]
              /\ UNCHANGED <<result, inflight>>
         [] outcome = "status" ->
              /\ AfterHook(c, response[c])
              /\ UNCHANGED <<tokens, attempt, replays>>
         [] OTHER ->
              /\ Settle(c, [kind |-> "TypeError", status |-> 0, data |-> Unset])
              /\ UNCHANGED <<tokens, attempt, replays>>
    /\ UNCHANGED <<builderVars, tokenStrategy, probe, returned, defaults, requestInterceptors,
                   rb, config, response,
                   netCalls, joined, aborted, sharedAborted, caught>>

\* One request on a client whose default auth is an OpaqueTokenStrategy with
\* a stored refresh token.
InitTerminate ==
    /\ Init
    /\ defaults.auth = OpaqueTokenStrategy
    /\ ~defaults.dedupe
    /\ requestInterceptors = <<>>
    /\ tokens.refresh

NextTerminate ==
    \/ \E c \in Solo : send(c)
    \/ \E c \in Solo : startAttemptLoop(c)
    \/ \E c \in Solo : \E res \in Statuses : fetchResponds(c, res)
    \/ \E c \in Solo : fetchFails(c)
    \/ \E c \in Solo : \E o \in {"ok", "status", "network"} : refreshRespondsLoop(c, o)
    \/ \E c \in Solo : delayElapses(c)

\* The engine takes its own steps, every fetch() call and every call of the
\* auth error hook eventually returns, and every retry timer fires.
FairTerminate ==
    /\ WF_vars(\E c \in Solo : startAttemptLoop(c))
    /\ WF_vars(\E c \in Solo : (\E res \in Statuses : fetchResponds(c, res)) \/ fetchFails(c))
    /\ WF_vars(\E c \in Solo : \E o \in {"ok", "status", "network"} : refreshRespondsLoop(c, o))
    /\ WF_vars(\E c \in Solo : delayElapses(c))

SpecTerminate == InitTerminate /\ [][NextTerminate]_vars /\ FairTerminate

\* ------------------------------------------- RequestCache.clear and delete
\* EndpointBuilder.clearCache(): requestCache.clear()
clearCache ==
    /\ requestCache' = [k \in CacheKeys |-> 0]
    /\ UNCHANGED <<engineVars, tokenStrategy, probe, eb>>

\* requestCache.delete(config)
RequestCache_delete(cfg) ==
    /\ requestCache' = [requestCache EXCEPT ![generateKey(cfg)] = 0]
    /\ UNCHANGED <<engineVars, tokenStrategy, probe, eb>>

\* Concurrent cache-enabled EndpointBuilder requests while the cache is also
\* cleared and single entries are deleted.
NextCacheClear ==
    \/ \E c \in Callers : \E h \in Headers : EndpointBuilder_header(c, h)
    \/ \E c \in Callers : \E e \in BOOLEAN : EndpointBuilder_cache(c, e)
    \/ \E c \in Callers : execute(c, DefaultOptions)
    \/ \E c \in Callers : \E status \in CacheStatuses : EndpointBuilder_responds(c, status)
    \/ \E c \in Callers : EndpointBuilder_fails(c)
    \/ \E c \in Callers : EndpointBuilder_joinedSettles(c)
    \/ clearCache
    \/ \E c \in Callers : RequestCache_delete(eb[c].config)

SpecCacheClear == InitCache /\ [][NextCacheClear]_vars

\* ------------------------------- RefreshRotationStrategy, OpaqueTokenAuthStrategy
\* RefreshRotationStrategy.refreshToken / OpaqueTokenAuthStrategy
\* .performTokenRefresh called by caller c in operation op: the stored
\* refresh promise is awaited if there is one, else the provider's
\* refreshToken() is called and its promise stored.
refreshToken(ts, c, op) ==
    IF ts.refreshPromise # 0
    THEN [ts EXCEPT !.call[c] = [op |-> op, awaiting |-> ts.refreshPromise,
                                 token |-> 0, late |-> TRUE]]
    ELSE [ts EXCEPT !.started = @ + 1,
                    !.pending = @ \cup {ts.started + 1},
                    !.refreshPromise = ts.started + 1,
                    !.call[c] = [op |-> op, awaiting |-> ts.started + 1,
                                 token |-> 0, late |-> TRUE]]

\* Whether a refreshToken(ts, c, op) call is within the bound on provider calls.
CanRefresh(ts) == ts.refreshPromise # 0 \/ ts.started < MaxCalls

\* applyAuth(config).  RefreshRotationStrategy attaches the current token
\* if there is one and the provider's isTokenValid (when given) accepts it,
\* and refreshes otherwise.  OpaqueTokenAuthStrategy (constructed without
\* isTokenValid) attaches the current token, else awaits a refresh under
\* way, else takes the token from getToken().
applyAuth(c, valid) ==
    LET ts == tokenStrategy
        attach(t) == [op |-> "applyAuth", awaiting |-> 0, token |-> t, late |-> TRUE]
    IN /\ ts.call[c].awaiting = 0
       /\ IF ts.kind = "RefreshRotationStrategy"
          THEN IF ts.currentToken # 0 /\ valid
               THEN tokenStrategy' = [ts EXCEPT !.call[c] = attach(ts.currentToken)]
               ELSE /\ CanRefresh(ts)
                    /\ tokenStrategy' = refreshToken(ts, c, "applyAuth")
          ELSE IF ts.currentToken # 0
               THEN tokenStrategy' = [ts EXCEPT !.call[c] = attach(ts.currentToken)]
               ELSE IF ts.refreshPromise # 0
               THEN tokenStrategy' = refreshToken(ts, c, "applyAuth")
               ELSE tokenStrategy' = [ts EXCEPT !.currentToken = StoredToken,
                                                !.call[c] = attach(StoredToken)]
       /\ UNCHANGED <<engineVars, probe, builderVars>>

\* handleAuthError(error) for a 401.  RefreshRotationStrategy clears the
\* current token first; both then refresh.
handleAuthError(c) ==
    LET ts == tokenStrategy
        cleared == IF ts.kind = "RefreshRotationStrategy"
                   THEN [ts EXCEPT !.currentToken = 0] ELSE ts
    IN /\ ts.call[c].awaiting = 0
       /\ CanRefresh(ts)
       /\ tokenStrategy' = refreshToken(cleared, c, "handleAuthError")
       /\ UNCHANGED <<engineVars, probe, builderVars>>

\* OpaqueTokenAuthStrategy.setToken(token)
setToken ==
    /\ tokenStrategy.kind = "OpaqueTokenAuthStrategy"
    /\ tokenStrategy' = [tokenStrategy EXCEPT !.currentToken = ManualToken,
                                              !.refreshPromise = 0]
    /\ UNCHANGED <<engineVars, probe, builderVars>>

\* invalidateToken(): forget the current token and the refresh promise.
invalidateToken ==
    /\ tokenStrategy' =
          [tokenStrategy EXCEPT
              !.currentToken = 0,
              !.refreshPromise = 0,
              !.stale = 1..tokenStrategy.started,
              !.call = [c \in Callers |-> [tokenStrategy.call[c] EXCEPT !.late = FALSE]]]
    /\ UNCHANGED <<engineVars, probe, builderVars>>

\* The provider's refreshToken() call i settles.  Resolved: the new token
\* becomes the current token (the then callback of RefreshRotationStrategy,
\* the assignment in OpaqueTokenAuthStrategy.handleAuthError).  Either way
\* the finally clears the refresh promise, and the callers awaiting call i
\* come back, with token i or without a token.
refreshSettles(i, ok) ==
    LET ts == tokenStrategy
    IN /\ i \in ts.pending
       /\ tokenStrategy' =
             [ts EXCEPT
                 !.pending = @ \ {i},
                 !.currentToken = IF ok THEN i ELSE @,
                 !.refreshPromise = 0,
                 !.call = [c \in Callers |->
                              IF ts.call[c].awaiting = i
                              THEN [ts.call[c] EXCEPT !.awaiting = 0,
                                                      !.token = IF ok THEN i ELSE 0]
                              ELSE ts.call[c]]]
       /\ UNCHANGED <<engineVars, probe, builderVars>>

\* Concurrent calls on one strategy instance.
InitRotation ==
    /\ InitIdle
    /\ probe = NoProbe
    /\ requestCache = [k \in CacheKeys |-> 0]
    /\ eb = [c \in Callers |-> NewEndpointBuilder(1)]
    /\ tokenStrategy \in {NewTokenStrategy(kind) : kind \in TokenStrategyKinds}

NextRotation ==
    \/ \E c \in Callers : \E valid \in BOOLEAN : applyAuth(c, valid)
    \/ \E c \in Callers : handleAuthError(c)
    \/ setToken
    \/ invalidateToken
    \/ \E i \in 1..MaxCalls : \E ok \in BOOLEAN : refreshSettles(i, ok)

SpecRotation == InitRotation /\ [][NextRotation]_vars

\* ------------------------------------ EndpointBuilder: auth() and abort signals
\* auth(strategy), noAuth()
EndpointBuilder_auth(c, strategy) ==
    /\ eb[c].pc = "idle"
    /\ eb' = [eb EXCEPT ![c].authStrategy = strategy]
    /\ UNCHANGED <<engineVars, tokenStrategy, probe, requestCache>>

\* execute() has returned or thrown and the caller goes on using the
\* builder: the locals of the call are gone, the builder's fields stay.
EndpointBuilder_reuse(c) ==
    /\ eb[c].pc = "done"
    /\ eb' = [eb EXCEPT ![c] =
                 [NewEndpointBuilder(eb[c].client) EXCEPT
                     !.config = eb[c].config,
                     !.retryConfig = eb[c].retryConfig,
                     !.authStrategy = eb[c].authStrategy,
                     !.mockResponse = eb[c].mockResponse,
                     !.mockModeEnabled = eb[c].mockModeEnabled,
                     !.cacheEnabled = eb[c].cacheEnabled]]
    /\ UNCHANGED <<engineVars, tokenStrategy, probe, requestCache>>

\* The caller aborts the signal it passed to execute(), while fetch() is
\* outstanding or the retry loop waits.
EndpointBuilder_abort(c) ==
    /\ eb[c].pc \in {"fetch", "delay"}
    /\ eb[c].options.signal
    /\ ~eb[c].aborted
    /\ eb' = [eb EXCEPT ![c].aborted = TRUE]
    /\ UNCHANGED <<engineVars, tokenStrategy, probe, requestCache>>

\* One builder used for several requests, with auth strategies, a retry
\* config and abort signals.
InitBuilderAuth ==
    /\ InitIdle
    /\ probe = NoProbe
    /\ IdleBuilders

NextBuilderAuth ==
    \/ \E c \in Solo : \E strategy \in AuthStrategies : EndpointBuilder_auth(c, strategy)
    \/ \E c \in Solo : \E cfg \in RetryConfigs : EndpointBuilder_retry(c, cfg)
    \/ \E c \in Solo : \E options \in {DefaultOptions, SignalOptions} : execute(c, options)
    \/ \E c \in Solo : EndpointBuilder_abort(c)
    \/ \E c \in Solo : \E status \in CacheStatuses : EndpointBuilder_responds(c, status)
    \/ \E c \in Solo : EndpointBuilder_fails(c)
    \/ \E c \in Solo : EndpointBuilder_delayElapses(c)
    \/ \E c \in Solo : EndpointBuilder_reuse(c)

SpecBuilderAuth == InitBuilderAuth /\ [][NextBuilderAuth]_vars

\* ------------------------------------------------- _dedupeKey, called directly
\* Pairs of requests built with method, path, query() and body().
KeyRequests ==
    [_method : {"GET", "POST"}, input : {"/a", "/a|"}, _query : Queries,
     _body : {NoBody, StringBody("b"), StringBody("|b"),
              FormDataBody("file 1"), FormDataBody("file 2"), BlobBody("file 1")}]

InitDedupeKey ==
    /\ InitIdle
    /\ IdleBuilders
    /\ probe \in [a : KeyRequests, b : KeyRequests, out : {<<>>}]

dedupeKeyCall ==
    /\ probe.out = <<>>
    /\ probe' = [probe EXCEPT !.out = <<_dedupeKey(probe.a), _dedupeKey(probe.b)>>]
    /\ UNCHANGED <<engineVars, builderVars, tokenStrategy>>

NextDedupeKey == dedupeKeyCall

SpecDedupeKey == InitDedupeKey /\ [][NextDedupeKey]_vars

\* ------------------------------------------------------------------ claims
Running == {"build", "fetch", "refresh", "delay"}

\* Same method, path, query and body.
SameRequest(c, d) ==
    /\ rb[c]._method = rb[d]._method
    /\ rb[c].input = rb[d].input
    /\ rb[c]._query = rb[d]._query
    /\ rb[c]._body = rb[d]._body

\* C1: dedupe-enabled calls with the same method, path, query and body issued
\* while the first is in flight share one attempt loop: no two of them run a
\* loop at the same time, a caller that was handed the in-flight promise makes
\* no network call of its own and settles with the outcome of that promise, and
\* a running loop stays registered under its key.
C1_DedupCoalescing ==
    /\ \A c, d \in Callers :
          (c # d /\ rb[c]._dedupe /\ rb[d]._dedupe /\ SameRequest(c, d))
             => ~(pc[c] \in Running /\ pc[d] \in Running)
    /\ \A d \in Callers :
          joined[d] # 0 =>
             /\ SameRequest(d, joined[d])
             /\ netCalls[d] = 0 /\ attempt[d] = 0
             /\ pc[d] = "done" => result[d] = result[joined[d]]
    /\ \A d \in Callers :
          (pc[d] \in Running /\ rb[d]._dedupe)
             => inflight[_dedupeKey(rb[d])] = d

\* Two callers shared one loop that made a single network call and both got
\* its response; and two callers shared a loop that failed.
C1_Witness ==
    \E c, d \in Callers :
       /\ joined[d] = c /\ pc[d] = "done" /\ pc[c] = "done"
       /\ result[d].kind = "response" /\ netCalls[c] = 1

C1_WitnessError ==
    \E c, d \in Callers :
       /\ joined[d] = c /\ pc[d] = "done"
       /\ result[d].kind = "HttpError" /\ netCalls[c] = 2

\* C2 as stated: with an effective retry strategy of maxAttempts = N one
\* execution makes at most N network calls.
C2_Original ==
    \A c \in Callers :
       Truthy(EffectiveRetry(c)) => netCalls[c] <= EffectiveRetry(c).maxAttempts

\* C2 amended: with an effective retry strategy of maxAttempts = N one execution
\* makes at most N network calls, not counting the calls whose response the
\* auth error hook handled (the replayed ones).
C2_RetryBound ==
    \A c \in Callers :
       Truthy(EffectiveRetry(c))
          => netCalls[c] - replays[c] <= EffectiveRetry(c).maxAttempts

\* All attempts used up: 500 answered MaxAttempts times, the error surfaces.
C2_Witness ==
    \E c \in Callers :
       /\ Truthy(EffectiveRetry(c))
       /\ EffectiveRetry(c).maxAttempts = MaxAttempts
       /\ netCalls[c] = MaxAttempts /\ replays[c] = 0
       /\ pc[c] = "done" /\ result[c].kind = "HttpError" /\ result[c].status = 500

\* C3: a request on which auth(null) was called is sent without credentials,
\* whatever the client default: no enrichRequest result is attached to it.
C3_AuthNullDisables ==
    \A c \in Callers :
       (rb[c]._auth = AuthNull /\ pc[c] = "fetch")
          => config[c].credential = NoCredential

\* C4: a request on which retry(null) was called is never retried: it never
\* waits out a retry delay, whatever the client default strategy.
C4_RetryNullDisables ==
    \A c \in Callers : rb[c]._retry = RetryNull => pc[c] # "delay"

\* C5: a replay after a handled auth error does not increment the attempt
\* counter: the attempt number of an iteration, the one a RetryContext carries,
\* counts the network calls other than the replayed ones.
C5_ReplayKeepsAttempt ==
    \A c \in Callers :
       pc[c] \in {"fetch", "refresh", "delay"}
          => attempt[c] = netCalls[c] - replays[c]

\* C6: when fetch fails at network level the effective retry strategy is asked,
\* and under the default policy the failure is retried while attempt <
\* maxAttempts: the error surfaces only once the attempts are used up.
C6_NetworkFailureRetried ==
    \A c \in Callers :
       (caught[c] = "TypeError" /\ pc[c] = "done" /\ Truthy(EffectiveRetry(c)))
          => attempt[c] >= EffectiveRetry(c).maxAttempts

\* C7: the signal given with signal() is the one handed to fetch on every
\* attempt.
C7_CallerSignalPassed ==
    \A c \in Callers :
       (pc[c] = "fetch" /\ rb[c]._signal) => config[c].signal = "caller"

\* C8: with timeout(T) set and no caller signal, every network call runs under
\* a timer that aborts it T ms after its start.
C8_TimeoutArmed ==
    \A c \in Callers :
       (pc[c] = "fetch" /\ rb[c]._timeout /\ ~rb[c]._signal) => config[c].timer

\* C9: a request aborted while it waits out a retry delay makes no further
\* network attempt: it leaves the delay only by rejecting with an AbortError.
C9_AbortDuringDelay ==
    [][\A c \in Callers :
          (pc[c] = "delay" /\ rb[c]._signal /\ aborted[c] /\ pc'[c] # "delay")
             => (pc'[c] = "done" /\ result'[c].kind = "AbortError")]_vars

\* C10: a network call that fails because of an abort (of the signal handed to
\* fetch, or by the timeout timer) is rethrown at once: the execution ends
\* there, rejected with the abort error.
C10_AbortRethrown ==
    \A c \in Callers :
       caught[c] \in {"AbortError", "timeout"}
          => (pc[c] = "done" /\ result[c].kind = "AbortError")

\* C11: refreshes of the OpaqueTokenStrategy are coalesced: while the POST to
\* the refresh endpoint of one handleRequestError call is outstanding, no other
\* call has a POST of its own outstanding.
C11_RefreshCoalesced ==
    Cardinality({c \in Callers : pc[c] = "refresh"}) <= 1

\* C12: when the refresh cannot be completed (the POST fails at network level
\* or answers non-2xx, or no refresh token is stored) the hook returns false
\* and the request is rejected with the HttpError of the original 401/403.
C12_RefreshFailureSurfacesOriginal ==
    \A c \in Callers :
       (pc[c] = "done" /\ joined[c] = 0 /\ response[c] \in {401, 403}
          /\ defaults.auth = OpaqueTokenStrategy)
          => (result[c].kind = "HttpError" /\ result[c].status = response[c])

\* C13: the backend answers 401 once and then 200, and the refresh of the
\* client's OpaqueTokenStrategy succeeds: one refresh is made (one new token
\* pair is saved), the second network call carries the new access token, it
\* is the last call, and the caller receives the 200 response.
C13_RefreshThenReplay ==
    \A c \in Callers :
       (defaults.auth = OpaqueTokenStrategy /\ rb[c]._auth = AuthUnset
          /\ netCalls[c] = 2 /\ replays[c] = 1)
          => /\ tokens.access = 2
             /\ pc[c] = "fetch" => config[c].credential = <<"Bearer", tokens.access>>
             /\ (pc[c] = "done" /\ response[c] = 200)
                   => result[c] = [kind |-> "response", status |-> 200, data |-> Body]

C13_Witness ==
    \E c \in Callers :
       /\ defaults.auth = OpaqueTokenStrategy /\ rb[c]._auth = AuthUnset
       /\ netCalls[c] = 2 /\ replays[c] = 1 /\ tokens.access = 2
       /\ pc[c] = "done" /\ response[c] = 200 /\ result[c].kind = "response"

\* C14: the deduplication key covers the headers: a caller is never handed the
\* in-flight promise of a request whose headers differ from its own.
C14_KeyCoversHeaders ==
    \A d \in Callers :
       joined[d] # 0 => rb[d]._headers = rb[joined[d]]._headers

\* C15: a dedupe-enabled call that finds an in-flight entry returns the same
\* promise object the first caller received.
C15_SamePromiseObject ==
    \A d \in Callers :
       joined[d] # 0 => returned[d] = returned[joined[d]]

\* C16: two dedupe-enabled requests that differ in a query parameter never
\* share an in-flight entry: a caller is handed an in-flight promise only if
\* the URL of its own request, query string included, is that of the request
\* in flight.
C16_QueryIsolation ==
    \A d \in Callers :
       joined[d] # 0 =>
          _buildConfig(rb[d], defaults, tokens).url
             = _buildConfig(rb[joined[d]], defaults, tokens).url

\* C17: the in-flight entry of a dedupe-enabled request is there from before
\* its first network call until its attempt loop settles, and is removed on
\* every outcome: an entry always belongs to a running loop registered under
\* its own key, and a call is handed an in-flight promise only while the loop
\* behind it is running, so an identical request issued after the settlement
\* runs a loop of its own.
C17_EntryLifecycle ==
    /\ [](/\ \A c \in Callers :
               (pc[c] \in Running /\ rb[c]._dedupe)
                  => inflight[_dedupeKey(rb[c])] = c
          /\ \A k \in Keys :
               inflight[k] # 0 =>
                  /\ pc[inflight[k]] \in Running
                  /\ rb[inflight[k]]._dedupe
                  /\ _dedupeKey(rb[inflight[k]]) = k)
    /\ [][\A d \in Callers :
             (pc[d] = "idle" /\ pc'[d] = "joined") => pc[joined'[d]] \in Running]_vars

\* A request settled with an error (HttpError or abort) and an identical
\* dedupe-enabled request issued afterwards is making its own network call
\* under an entry of its own.
C17_Witness ==
    \E c, d \in Callers :
       /\ c # d /\ SameRequest(c, d) /\ rb[c]._dedupe /\ rb[d]._dedupe
       /\ pc[c] = "done" /\ joined[c] = 0
       /\ result[c].kind \in {"HttpError", "AbortError"}
       /\ pc[d] = "fetch" /\ inflight[_dedupeKey(rb[d])] = d

\* C18: the auth error hook that runs after a response is the hook of the
\* strategy in effect for the request: the refresh of the client default
\* strategy runs only for a request that neither overrides nor disables auth.
C18_HookOfEffectiveAuth ==
    \A c \in Callers :
       pc[c] = "refresh" => rb[c]._auth = AuthUnset

\* C19: the HttpError of a response with a failure status that is not retried
\* carries the response body in error.response.data.
C19_ErrorCarriesBody ==
    \A c \in Callers :
       (pc[c] = "done" /\ result[c].kind = "HttpError" /\ result[c].status # NoResponse)
          => result[c].data = Body

\* C20: shouldRetry of the default retry strategy returns true exactly when
\* attempt < maxAttempts and either there is no response, or the status is
\* >= 500, or it is 429.
C20_ShouldRetryRule ==
    probe.out # Unset =>
       (probe.out = "true" <=>
           /\ probe.ctx.attempt < probe.strategy.maxAttempts
           /\ \/ probe.ctx.response = NoResponse
              \/ probe.ctx.response >= 500
              \/ probe.ctx.response = 429)

\* The response gives no usable Retry-After: nextDelay computes the backoff.
Backoff ==
    ~(/\ probe.strategy.respectRetryAfter /\ probe.ctx.response # NoResponse
      /\ probe.ctx.retryAfter.kind # "none"
      /\ parseRetryAfter(probe.ctx.retryAfter) # <<>>)

\* exp = min(base * 2^(attempt-1), maxDelay) of the i-th call.
ExpTerm(i) ==
    Min(probe.strategy.baseDelay * 2 ^ (probe.ctx.attempt + i - 2),
        probe.strategy.maxDelay)

\* C21: with the random factor fixed, the computed delay lies in [exp/2, exp],
\* never exceeds maxDelay, and the delay of attempt k+1 is greater than that of
\* attempt k as long as the exponential term of attempt k is below maxDelay.
C21_BackoffGrowthAndCap ==
    Backoff =>
       /\ \A i \in 1..Len(probe.out) :
             /\ 2 * probe.out[i] >= ExpTerm(i)
             /\ probe.out[i] <= ExpTerm(i)
             /\ probe.out[i] <= probe.strategy.maxDelay
       /\ (Len(probe.out) = 2 /\ ExpTerm(1) < probe.strategy.maxDelay)
             => probe.out[2] > probe.out[1]

\* Two delays were computed, the second greater than the first and equal to
\* 3/4 of the cap.
C21_Witness ==
    /\ Backoff /\ Len(probe.out) = 2
    /\ probe.out[2] > probe.out[1]
    /\ ExpTerm(2) = probe.strategy.maxDelay
    /\ probe.random = 2 /\ 4 * probe.out[2] = 3 * probe.strategy.maxDelay

\* C22: a Retry-After header of s seconds on the failed response makes
\* nextDelay return min(1000 * s, maxDelay).
C22_RetryAfterSeconds ==
    (/\ probe.strategy.respectRetryAfter /\ probe.ctx.response # NoResponse
     /\ probe.ctx.retryAfter.kind = "seconds")
       => \A i \in 1..Len(probe.out) :
             probe.out[i] = Min(1000 * probe.ctx.retryAfter.n, probe.strategy.maxDelay)

\* A Retry-After of 3 seconds was capped to a maxDelay of 2000 ms.
C22_Witness ==
    /\ probe.strategy.respectRetryAfter /\ probe.ctx.response # NoResponse
    /\ probe.ctx.retryAfter = [kind |-> "seconds", n |-> 3]
    /\ probe.strategy.maxDelay = 2000
    /\ Len(probe.out) >= 1 /\ probe.out[1] = 2000

\* C23: every header of the built config carries the value of the last of
\* client defaults, request headers, auth-derived headers that defines it: the
\* auth strategy's value if the strategy is in effect and gives one, else the
\* request's, else the client default.
C23_HeaderMergeOrder ==
    probe.out # <<>> =>
        \A k \in HeaderNames :
            probe.out[1][k] =
                IF probe.auth /\ probe.authHeaders[k] \notin {Absent, Undefined}
                THEN probe.authHeaders[k]
                ELSE IF probe._headers[k] # Absent THEN probe._headers[k]
                ELSE probe.defaultHeaders[k]

\* A header all three sources define came out with the auth strategy's value,
\* and one that only defaults and request define with the request's.
C23_Witness ==
    /\ probe.out # <<>>
    /\ probe.auth
    /\ probe.defaultHeaders["Authorization"] = "default"
    /\ probe._headers["Authorization"] = "request"
    /\ probe.authHeaders["Authorization"] = "auth"
    /\ probe.out[1]["Authorization"] = "auth"
    /\ probe.defaultHeaders["X-Tenant"] = "default"
    /\ probe._headers["X-Tenant"] = "request"
    /\ probe.authHeaders["X-Tenant"] = Absent
    /\ probe.out[1]["X-Tenant"] = "request"

C25_CacheOwnedByClient ==
    \A c \in Callers :
        eb[c].joined # 0 => eb[eb[c].joined].client = eb[c].client

\* C26: an execute() in mock-only mode (builder flag or option) has settled
\* without any network call and without entering the retry loop: with the
\* configuration error when no mock is registered, with the mock response
\* when one is.
C26_MockOnly ==
    \A c \in Callers :
        LET b == eb[c]
        IN (b.pc # "idle" /\ (b.mockModeEnabled \/ b.options.mockOnly)) =>
               /\ b.pc = "done"
               /\ b.calls = 0
               /\ b.attempt = 0
               /\ b.result = IF b.mockResponse THEN MockResult ELSE MockOnlyError

\* Mock-only mode without a mock, on a builder that has a retry config with
\* more than one attempt: the configuration error, no network call.
C26_Witness ==
    \E c \in Callers :
        /\ eb[c].pc = "done"
        /\ eb[c].mockModeEnabled
        /\ ~eb[c].mockResponse
        /\ eb[c].retryConfig.attempts >= 2
        /\ eb[c].result = MockOnlyError
        /\ eb[c].calls = 0

InFlight(c) == eb[c].pc = "fetch" /\ eb[c].cacheEnabled

SameCacheKey(c, d) == generateKey(eb[c].config) = generateKey(eb[d].config)

\* C28: of identical cache-enabled requests at most one has a network call
\* in flight; the others joined it, make no call and settle with its result;
\* the cache holds an entry exactly while its request is in flight, so that
\* a cache-enabled execute() joins if an identical request is in flight and
\* otherwise makes a network call of its own.
C28_CacheCoalescing ==
    /\ [](/\ \A c, d \in Callers :
                (c # d /\ InFlight(c) /\ InFlight(d)) => ~SameCacheKey(c, d)
          /\ \A d \in Callers :
                eb[d].joined # 0 =>
                    /\ SameCacheKey(d, eb[d].joined)
                    /\ eb[d].calls = 0
                    /\ eb[d].pc = "done" =>
                           (eb[eb[d].joined].pc = "done"
                            /\ eb[d].result = eb[eb[d].joined].result)
          /\ \A c \in Callers :
                InFlight(c) <=> requestCache[generateKey(eb[c].config)] = c)
    /\ [][\A d \in Callers :
            (eb[d].pc = "idle" /\ eb'[d].pc # "idle" /\ eb[d].cacheEnabled) =>
                IF \E c \in Callers : InFlight(c) /\ SameCacheKey(c, d)
                THEN /\ eb'[d].pc = "joined"
                     /\ InFlight(eb'[d].joined) /\ SameCacheKey(eb'[d].joined, d)
                     /\ eb'[d].calls = 0
                ELSE eb'[d].pc = "fetch" /\ eb'[d].calls = 1]_vars

\* A caller joined an identical request in flight, made no call, and both
\* settled with the same response.
C28_Witness ==
    \E c, d \in Callers :
        /\ c # d
        /\ eb[d].joined = c
        /\ eb[c].pc = "done" /\ eb[d].pc = "done"
        /\ eb[c].calls = 1 /\ eb[d].calls = 0
        /\ eb[c].result.kind = "response"
        /\ eb[d].result = eb[c].result

\* C29: once the provided strategy's calculateDelay has returned null, the
\* retry loop makes no further network call.
C29_NullDelayStops ==
    \A c \in Callers :
        (eb[c].retryConfig.strategy.tag # "none" /\ eb[c].delay = NullDelay) =>
            eb[c].pc \notin {"fetch", "delay"}

\* C30: with a RetryStrategy configured, a retry is under way only after a
\* failure its shouldRetry accepts, and a failure it accepts is retried while
\* attempts remain.
C30_StrategyDecides ==
    \A c \in Callers :
        LET b == eb[c]
        IN b.retryConfig.strategy.tag # "none" =>
               /\ (b.pc \in {"fetch", "delay"} /\ b.attempt >= 1) =>
                      strategyShouldRetry(b.retryConfig.strategy, b.lastError)
               /\ (b.pc = "done" /\ b.result.kind \in {"HttpError", "TypeError"}
                   /\ b.attempt < maxAttemptsOf(b.retryConfig)) =>
                      ~strategyShouldRetry(b.retryConfig.strategy, b.lastError)

\* The auth strategy in effect for a request.
EffectiveAuth(c) == Coalesce(rb[c]._auth, defaults.auth)

\* C31: while a network call is in flight for a request whose effective auth
\* is an ApiKeyStrategy with asQueryParam, the URL of the call is the one the
\* strategy produced, with the key as query parameter, and the call carries
\* no API-key header.
C31_KeyInQuery ==
    \A c \in Callers :
        (pc[c] = "fetch" /\ EffectiveAuth(c) = ApiKeyQueryStrategy) =>
            /\ config[c].url =
                   requestUrlAfterEnrich(ApiKeyQueryStrategy,
                                         <<rb[c].input,
                                           IF rb[c]._query # Unset
                                           THEN toQuery(rb[c]._query) ELSE "">>)
            /\ config[c].credential = NoCredential

\* The Response method that reads a body as the given ResponseType.
DecoderOf(responseType) ==
    CASE responseType = "json" -> "json"
      [] responseType = "text" -> "text"
      [] responseType = "blob" -> "blob"
      [] responseType = "arraybuffer" -> "arrayBuffer"
      [] responseType = "stream" -> "body"

\* C32: a non-empty successful response decoded under an explicit
\* responseType was read the way that type says, whatever its Content-Type.
C32_ExplicitTypeWins ==
    (/\ probe.out # Unset
     /\ probe.res.status # 204 /\ ~probe.res.contentLength0
     /\ probe.cfg.responseType # Unset) =>
        probe.out = DecoderOf(probe.cfg.responseType)

\* C33: an execution that has started settles: under the fairness of
\* SpecTerminate every request in its attempt loop eventually resolves or
\* rejects.
C33_Terminates ==
    \A c \in Callers : (pc[c] \in Running) ~> (pc[c] = "done")

\* C34: the cache entry of a request leaves the cache only in the step in
\* which that request settles, or by clear() or delete() (steps that change
\* no request): the settlement of another request never removes it.
C34_OwnerRemovesEntry ==
    [][\A k \in CacheKeys :
          (requestCache[k] # 0 /\ requestCache'[k] # requestCache[k]) =>
              (eb'[requestCache[k]].pc = "done" \/ eb' = eb)]_vars

\* C35: at most one refreshToken() call of the provider is outstanding.
C35_OneRefreshOutstanding ==
    Cardinality(tokenStrategy.pending) <= 1

\* C36: a token that an applyAuth made after the last invalidateToken() came
\* back with is not the token of a refreshToken() call that had started
\* before that invalidation.
C36_NoStaleToken ==
    \A c \in Callers :
        LET call == tokenStrategy.call[c]
        IN (/\ tokenStrategy.kind = "RefreshRotationStrategy"
            /\ call.op = "applyAuth" /\ call.awaiting = 0 /\ call.late
            /\ call.token # 0) =>
               call.token \notin tokenStrategy.stale

\* C37: an execute() made on a builder whose authentication is disabled
\* (auth(null) / noAuth()) sends no Authorization header, whatever earlier
\* execute() calls on the builder did.
C37_NoCredentialAfterNoAuth ==
    \A c \in Callers :
        (eb[c].pc = "fetch" /\ eb[c].authStrategy = AuthDisabled) =>
            eb[c].config.Authorization = ""

\* C38: once the caller's signal is aborted no further network call is made,
\* and the call ends with the abort error.
C38_AbortNotRetried ==
    [][\A c \in Callers :
          eb[c].aborted =>
              /\ eb'[c].calls <= eb[c].calls
              /\ (eb'[c].pc = "done" /\ eb[c].pc # "done") => eb'[c].result.kind = "AbortError"]_vars

\* C39: two requests that differ in method, path, query or body get
\* different dedupe keys.
C39_KeyInjective ==
    (probe.out # <<>> /\ probe.a # probe.b) => probe.out[1] # probe.out[2]

\* C40: nextDelay never returns a negative delay.
C40_DelayNotNegative ==
    \A i \in 1..Len(probe.out) : probe.out[i] >= 0

====
